---- MODULE Spec2Model ----
(***************************************************************************)
(* Crypto Price ETL pipeline (src/main.py): extract_data -> transform_data *)
(* -> load_data, driven once per program invocation by etl_process.  The   *)
(* snapshot file data/crypto_data.csv and the log file logs/crypto_etl.log *)
(* persist from one invocation to the next.                                *)
(***************************************************************************)
EXTENDS Integers, Sequences, FiniteSets, TLC

\* ------------------------------------------------------------- bounds
\* longest JSON array the API answers with in the model (per_page in the code is 10)
MaxLen == 2
\* number of program invocations in one behaviour
MaxRuns == 2

\* ------------------------------------------------------------- helpers
Range(s) == {s[i] : i \in 1..Len(s)}

SeqsUpTo(S, n) == UNION {[1..k -> S] : k \in 0..n}

IsPrefix(s, t) == Len(s) <= Len(t) /\ SubSeq(t, 1, Len(s)) = s

\* ------------------------------------------------------------- values
\* A cell of a record, of a DataFrame or of a CSV line.
\*   val   : the value the API gave for `field` (n tells records apart)
\*   time  : a formatted datetime.now() reading
\*   nan   : pandas' missing value
\*   empty : the empty CSV field
Val(f, n) == [kind |-> "val", field |-> f, n |-> n]
Time(t) == [kind |-> "time", field |-> "", n |-> t]
NaN == [kind |-> "nan", field |-> "", n |-> 0]
EmptyField == [kind |-> "empty", field |-> "", n |-> 0]

\* the columns transform_data selects
SourceColumns == <<"id", "symbol", "current_price", "market_cap", "total_volume">>

\* a field of the API's answer that transform_data does not select
OtherField == "image"

\* A JSON object of the API's answer: a function from the field names it has
\* to their values.
MarketRecord(fields, n) == [f \in fields |-> Val(f, n)]

AllFields == Range(SourceColumns) \cup {OtherField}

\* the objects the model's API answers with: two complete ones (the second
\* with a field beyond the five) and one that lacks the field `missing`
Records(missing) ==
    {MarketRecord(Range(SourceColumns), 1),
     MarketRecord(AllFields, 2),
     MarketRecord(Range(SourceColumns) \ {missing}, 3)}

WellFormed(rec) == Range(SourceColumns) \subseteq DOMAIN rec

\* response.json(): a JSON array of objects, or a JSON scalar (a string, a
\* number) that is no table at all
Payloads(missing) ==
    {[kind |-> "array", items |-> s] : s \in SeqsUpTo(Records(missing), MaxLen)}
        \cup {[kind |-> "scalar", items |-> <<>>]}

NoData == [kind |-> "none", items |-> <<>>]

\* ------------------------------------------------------------- pandas
\* mutant of DataFrame: the rows come out in reverse order
DataFrame_reversed(items, cols) ==
    [columns |-> cols,
     rows |-> [i \in 1..Len(items) |->
                 [c \in Range(cols) |->
                    IF c \in DOMAIN items[Len(items) + 1 - i]
                    THEN items[Len(items) + 1 - i][c] ELSE NaN]]]

\* pd.DataFrame(list_of_dicts, columns=cols): one row per dict, in order; the
\* columns are exactly cols; a key a dict lacks is NaN, a key not in cols is
\* dropped.
DataFrame(items, cols) ==
    [columns |-> cols,
     rows |-> [i \in 1..Len(items) |->
                 [c \in Range(cols) |->
                    IF c \in DOMAIN items[i] THEN items[i][c] ELSE NaN]]]

\* pd.DataFrame raises ValueError("DataFrame constructor not properly
\* called!") for a scalar given without an index
DataFrameRaises(data) == data.kind # "array"

\* mutant of RenameMap: the labels of market_cap and total_volume are swapped
RenameMap_swapped(c) ==
    CASE c = "id" -> "crypto_name"
      [] c = "symbol" -> "symbol"
      [] c = "current_price" -> "price_usd"
      [] c = "market_cap" -> "volume_usd"
      [] c = "total_volume" -> "market_cap_usd"
      [] OTHER -> c

\* the rename mapping of transform_data
RenameMap(c) ==
    CASE c = "id" -> "crypto_name"
      [] c = "symbol" -> "symbol"
      [] c = "current_price" -> "price_usd"
      [] c = "market_cap" -> "market_cap_usd"
      [] c = "total_volume" -> "volume_usd"
      [] OTHER -> c

\* df.rename(columns=RenameMap, inplace=True): every column label c becomes
\* RenameMap(c), the data under it stays
Rename(df) ==
    LET old(c2) == CHOOSE c \in Range(df.columns) : RenameMap(c) = c2
    IN [columns |-> [i \in 1..Len(df.columns) |-> RenameMap(df.columns[i])],
        rows |-> [i \in 1..Len(df.rows) |->
                    [c2 \in {RenameMap(c) : c \in Range(df.columns)} |->
                       df.rows[i][old(c2)]]]]

\* mutant of SetColumn: the value is taken anew for each row, a later reading
\* each time
SetColumn_per_row(df, col, v) ==
    [columns |-> IF col \in Range(df.columns) THEN df.columns
                 ELSE Append(df.columns, col),
     rows |-> [i \in 1..Len(df.rows) |->
                 [c \in Range(df.columns) \cup {col} |->
                    IF c = col THEN [v EXCEPT !.n = @ + i - 1] ELSE df.rows[i][c]]]]

\* df[col] = scalar: the scalar is broadcast to every row; a new column goes last
SetColumn(df, col, v) ==
    [columns |-> IF col \in Range(df.columns) THEN df.columns
                 ELSE Append(df.columns, col),
     rows |-> [i \in 1..Len(df.rows) |->
                 [c \in Range(df.columns) \cup {col} |->
                    IF c = col THEN v ELSE df.rows[i][c]]]]

\* the body of transform_data's try block, given the one datetime.now()
\* reading: the three statements one after the other, each working on the
\* frame the one before it left
transform(items, now) ==
    CHOOSE out \in
        {SetColumn(renamed, "timestamp", Time(now)) :
            renamed \in {Rename(frame) : frame \in {DataFrame(items, SourceColumns)}}} : TRUE

NoFrame == [columns |-> <<>>, rows |-> <<>>]

\* df.to_csv(index=False): the header line, then one line per row, the cells
\* in column order, NaN written as the empty field
CsvCell(v) == IF v = NaN THEN EmptyField ELSE v

to_csv(df) ==
    <<[i \in 1..Len(df.columns) |-> Val(df.columns[i], 0)]>>
        \o [r \in 1..Len(df.rows) |->
              [i \in 1..Len(df.columns) |-> CsvCell(df.rows[r][df.columns[i]])]]

\* ------------------------------------------------------------- logging
Entry(level, msg) == [level |-> level, msg |-> msg]

\* ------------------------------------------------------------- state
VARIABLES
    pc,          \* where the invocation is: Idle, Extracting, Transforming, Loading, Done, Failed
    run,         \* number of the current program invocation
    data,        \* etl_process's local `data`
    df,          \* etl_process's local `df`
    file,        \* data/crypto_data.csv: [exists, lines]
    log,         \* logs/crypto_etl.log: the entries, oldest first
    clock,       \* number of datetime.now() readings taken so far
    calls,       \* how often each stage was invoked in this invocation
    fileAtStart, \* the snapshot file when this invocation's etl_process began
    logAtStart,  \* the log's length when this invocation's etl_process began
    absent       \* the field the API leaves out of an incomplete object

vars == <<pc, run, data, df, file, log, clock, calls, fileAtStart, logAtStart, absent>>

NoFile == [exists |-> FALSE, lines |-> <<>>]
NoCalls == [extract |-> 0, transform |-> 0, load |-> 0]

Init ==
    /\ pc = "Idle"
    /\ run = 1
    /\ data = NoData
    /\ df = NoFrame
    /\ file = NoFile
    /\ log = <<>>
    /\ clock = 0
    /\ calls = NoCalls
    /\ fileAtStart = NoFile
    /\ logAtStart = 0
    /\ absent \in Range(SourceColumns)

\* mutant of etl_process_start: the start entry is not logged
etl_process_start_silent ==
    /\ pc = "Idle"
    /\ pc' = "Extracting"
    /\ fileAtStart' = file
    /\ logAtStart' = Len(log)
    /\ UNCHANGED <<run, data, df, file, log, clock, calls, absent>>

\* etl_process up to the call of extract_data
etl_process_start ==
    /\ pc = "Idle"
    /\ pc' = "Extracting"
    /\ log' = Append(log, Entry("INFO", "ETL process started."))
    /\ fileAtStart' = file
    /\ logAtStart' = Len(log)
    /\ UNCHANGED <<run, data, df, file, clock, calls, absent>>

\* extract_data returns the parsed JSON
extract_data_ok ==
    /\ pc = "Extracting"
    /\ \E payload \in Payloads(absent) : data' = payload
    /\ calls' = [calls EXCEPT !.extract = @ + 1]
    /\ log' = Append(log, Entry("INFO", "Data extraction successful."))
    /\ pc' = "Transforming"
    /\ UNCHANGED <<run, df, file, clock, fileAtStart, logAtStart, absent>>

\* mutant of extract_data_fail: the handler leaves an empty snapshot file behind
extract_data_fail_truncating ==
    /\ pc = "Extracting"
    /\ calls' = [calls EXCEPT !.extract = @ + 1]
    /\ log' = Append(log, Entry("ERROR", "Error in data extraction"))
    /\ file' = [exists |-> TRUE, lines |-> <<>>]
    /\ pc' = "Failed"
    /\ UNCHANGED <<run, data, df, clock, fileAtStart, logAtStart, absent>>

\* mutant of extract_data_fail: the first failure is retried
extract_data_fail_retry ==
    /\ pc = "Extracting"
    /\ calls' = [calls EXCEPT !.extract = @ + 1]
    /\ log' = Append(log, Entry("ERROR", "Error in data extraction"))
    /\ pc' = IF calls.extract = 0 THEN "Extracting" ELSE "Failed"
    /\ UNCHANGED <<run, data, df, file, clock, fileAtStart, logAtStart, absent>>

\* requests.get, raise_for_status or response.json raises
extract_data_fail ==
    /\ pc = "Extracting"
    /\ calls' = [calls EXCEPT !.extract = @ + 1]
    /\ log' = Append(log, Entry("ERROR", "Error in data extraction"))
    /\ pc' = "Failed"
    /\ UNCHANGED <<run, data, df, file, clock, fileAtStart, logAtStart, absent>>

extract_data == extract_data_ok \/ extract_data_fail

\* transform_data returns the DataFrame
transform_data_ok ==
    /\ pc = "Transforming"
    /\ ~DataFrameRaises(data)
    /\ clock' = clock + 1
    /\ df' = transform(data.items, clock + 1)
    /\ calls' = [calls EXCEPT !.transform = @ + 1]
    /\ log' = Append(log, Entry("INFO", "Data transformation successful."))
    /\ pc' = "Loading"
    /\ UNCHANGED <<run, data, file, fileAtStart, logAtStart, absent>>

\* mutant of transform_data_fail: the handler logs and does not re-raise, so
\* etl_process goes on to load_data
transform_data_fail_swallowed ==
    /\ pc = "Transforming"
    /\ DataFrameRaises(data)
    /\ calls' = [calls EXCEPT !.transform = @ + 1]
    /\ log' = Append(log, Entry("ERROR", "Error in data transformation"))
    /\ pc' = "Loading"
    /\ UNCHANGED <<run, data, df, file, clock, fileAtStart, logAtStart, absent>>

\* pd.DataFrame raises
transform_data_fail ==
    /\ pc = "Transforming"
    /\ DataFrameRaises(data)
    /\ calls' = [calls EXCEPT !.transform = @ + 1]
    /\ log' = Append(log, Entry("ERROR", "Error in data transformation"))
    /\ pc' = "Failed"
    /\ UNCHANGED <<run, data, df, file, clock, fileAtStart, logAtStart, absent>>

transform_data == transform_data_ok \/ transform_data_fail

\* mutant of load_data_ok: the file is opened for appending
load_data_ok_append ==
    /\ pc = "Loading"
    /\ file' = [exists |-> TRUE, lines |-> file.lines \o to_csv(df)]
    /\ calls' = [calls EXCEPT !.load = @ + 1]
    /\ log' = log \o <<Entry("INFO", "Data loading successful."),
                       Entry("INFO", "ETL process completed.")>>
    /\ pc' = "Done"
    /\ UNCHANGED <<run, data, df, clock, fileAtStart, logAtStart, absent>>

\* load_data returns (the snapshot is rewritten from scratch, mode "w"), and
\* etl_process logs the completion and returns
load_data_ok ==
    /\ pc = "Loading"
    /\ file' = [exists |-> TRUE, lines |-> to_csv(df)]
    /\ calls' = [calls EXCEPT !.load = @ + 1]
    /\ log' = log \o <<Entry("INFO", "Data loading successful."),
                       Entry("INFO", "ETL process completed.")>>
    /\ pc' = "Done"
    /\ UNCHANGED <<run, data, df, clock, fileAtStart, logAtStart, absent>>

\* what an OSError inside df.to_csv leaves on disk: open() failed and nothing
\* was touched, or the file was opened (created or truncated) and the write
\* failed after some of the lines
FailedWrites(old, lines) ==
    {old} \cup {[exists |-> TRUE, lines |-> SubSeq(lines, 1, k)] : k \in 0..(Len(lines) - 1)}

\* mutant of load_data_fail_write: the failure is not logged
load_data_fail_write_unlogged ==
    /\ pc = "Loading"
    /\ file' \in FailedWrites(file, to_csv(df))
    /\ calls' = [calls EXCEPT !.load = @ + 1]
    /\ pc' = "Failed"
    /\ UNCHANGED <<run, data, df, log, clock, fileAtStart, logAtStart, absent>>

\* df.to_csv raises
load_data_fail_write ==
    /\ pc = "Loading"
    /\ file' \in FailedWrites(file, to_csv(df))
    /\ calls' = [calls EXCEPT !.load = @ + 1]
    /\ log' = Append(log, Entry("ERROR", "Error in data loading"))
    /\ pc' = "Failed"
    /\ UNCHANGED <<run, data, df, clock, fileAtStart, logAtStart, absent>>

\* df.to_csv and logging.info succeed, then print raises (stdout is closed)
load_data_fail_print ==
    /\ pc = "Loading"
    /\ file' = [exists |-> TRUE, lines |-> to_csv(df)]
    /\ calls' = [calls EXCEPT !.load = @ + 1]
    /\ log' = log \o <<Entry("INFO", "Data loading successful."),
                       Entry("ERROR", "Error in data loading")>>
    /\ pc' = "Failed"
    /\ UNCHANGED <<run, data, df, clock, fileAtStart, logAtStart, absent>>

load_data == load_data_ok \/ load_data_fail_write \/ load_data_fail_print

\* the program is run again: a new process, the two files are what the last
\* one left
main ==
    /\ pc \in {"Done", "Failed"}
    /\ run < MaxRuns
    /\ run' = run + 1
    /\ pc' = "Idle"
    /\ data' = NoData
    /\ df' = NoFrame
    /\ calls' = NoCalls
    /\ fileAtStart' = file
    /\ logAtStart' = Len(log)
    /\ UNCHANGED <<file, log, clock, absent>>

Next ==
    \/ etl_process_start
    \/ extract_data
    \/ transform_data
    \/ load_data
    \/ main

Spec == Init /\ [][Next]_vars

\* the steps of one invocation
Stages == etl_process_start \/ extract_data \/ transform_data \/ load_data

\* ------------------------------------------------------------- observers
\* the entries this invocation has appended to the log
RunLog == SubSeq(log, logAtStart + 1, Len(log))

Logged(msg) == \E i \in 1..Len(RunLog) : RunLog[i].msg = msg

Errors == {i \in 1..Len(RunLog) : RunLog[i].level = "ERROR"}

\* a step in which the stage is invoked
Invoked(stage) == calls'[stage] = calls[stage] + 1

\* the stage whose failure ended the invocation: the last one invoked
FailedStage ==
    IF calls.load > 0 THEN "Error in data loading"
    ELSE IF calls.transform > 0 THEN "Error in data transformation"
    ELSE "Error in data extraction"

Incomplete(d) == d.kind = "array" /\ \E i \in 1..Len(d.items) : ~WellFormed(d.items[i])

Complete(d) == d.kind = "array" /\ \A i \in 1..Len(d.items) : WellFormed(d.items[i])

\* transform_data has returned its table in this invocation
Transformed == calls.transform > 0 /\ (pc = "Failed" => calls.load > 0)

\* ------------------------------------------------------------- C1
\* C1: the stages run in the order extract_data, transform_data, load_data;
\* transform_data is invoked only after extract_data returned, load_data only
\* after transform_data returned, and from Failed the invocation never leaves
\* and no stage is invoked again.
C1_StrictStageOrder ==
    [][/\ Invoked("extract") => pc = "Extracting" /\ calls = NoCalls
       /\ Invoked("transform") =>
            /\ calls = [extract |-> 1, transform |-> 0, load |-> 0]
            /\ Logged("Data extraction successful.")
            /\ Errors = {}
       /\ Invoked("load") =>
            /\ calls = [extract |-> 1, transform |-> 1, load |-> 0]
            /\ Logged("Data transformation successful.")
            /\ Errors = {}
       /\ (pc = "Failed" /\ run' = run) => (pc' = "Failed" /\ calls' = calls)]_vars

\* a complete invocation that follows a failed one
C1_Witness ==
    /\ pc = "Done"
    /\ calls = [extract |-> 1, transform |-> 1, load |-> 1]
    /\ run = 2
    /\ \E i \in 1..logAtStart : log[i].level = "ERROR"

\* ------------------------------------------------------------- C2
\* C2: when a record of the input lacks one of the five source fields,
\* transform_data fails instead of returning a table and load_data is never
\* invoked in that invocation.
C2_MissingFieldFails ==
    Incomplete(data) =>
        /\ calls.transform > 0 => pc = "Failed"
        /\ calls.load = 0

\* ------------------------------------------------------------- C3
\* C3 as claimed: whenever an invocation has failed, whichever stage failed,
\* the snapshot file is what it was when the invocation began.
C3_FailedRunKeepsSnapshot == pc = "Failed" => file = fileAtStart

\* C3 as amended: a failure of extract_data or transform_data leaves the
\* snapshot file as it was; a failure of load_data leaves it as it was or
\* rewritten with the first lines, or all, of this invocation's table.
C3_FailureBeforeLoadKeepsSnapshot ==
    pc = "Failed" =>
        IF calls.load = 0 THEN file = fileAtStart
        ELSE file = fileAtStart \/ (file.exists /\ IsPrefix(file.lines, to_csv(df)))

\* transform_data fails in an invocation that found a snapshot of an earlier one
C3_Witness ==
    /\ pc = "Failed"
    /\ calls = [extract |-> 1, transform |-> 1, load |-> 0]
    /\ fileAtStart.exists
    /\ Len(fileAtStart.lines) > 1

\* ------------------------------------------------------------- C4
\* C4: a failed invocation has appended exactly one ERROR entry, it is the last
\* entry and names the stage that failed; while no stage has failed, and after
\* a successful invocation, there is no ERROR entry of this invocation.
C4_OneErrorEntryPerFailure ==
    /\ pc = "Failed" =>
         /\ Errors = {Len(RunLog)}
         /\ RunLog[Len(RunLog)].msg = FailedStage
    /\ pc # "Failed" => Errors = {}

\* load_data fails
C4_Witness ==
    /\ pc = "Failed"
    /\ calls.load = 1
    /\ RunLog[Len(RunLog)] = Entry("ERROR", "Error in data loading")

C6_RowsFollowRecords ==
    (calls.transform > 0 /\ Complete(data)) =>
        /\ Transformed
        /\ Len(df.rows) = Len(data.items)
        /\ \A i \in 1..Len(data.items) :
             /\ df.rows[i]["crypto_name"] = data.items[i]["id"]
             /\ df.rows[i]["symbol"] = data.items[i]["symbol"]
             /\ df.rows[i]["price_usd"] = data.items[i]["current_price"]
             /\ df.rows[i]["market_cap_usd"] = data.items[i]["market_cap"]
             /\ df.rows[i]["volume_usd"] = data.items[i]["total_volume"]

\* two different complete records have been transformed
C6_Witness ==
    /\ pc = "Loading"
    /\ Complete(data)
    /\ Len(data.items) = 2
    /\ data.items[1] # data.items[2]

\* ------------------------------------------------------------- C7
\* C7: a transform_data that returns has read the clock once, and every row
\* of its table carries that one reading.
C7_OneTimestampPerRun ==
    [][(Invoked("transform") /\ pc' = "Loading") =>
          /\ clock' = clock + 1
          /\ \A i \in 1..Len(df'.rows) : df'.rows[i]["timestamp"] = Time(clock')]_vars

\* a table of two rows has been stamped
C7_Witness ==
    /\ Transformed
    /\ Len(df.rows) = 2
    /\ df.rows[1]["timestamp"] = df.rows[2]["timestamp"]
    /\ df.rows[1]["timestamp"].kind = "time"

\* ------------------------------------------------------------- C8
\* C8: the table transform_data returns has exactly the columns crypto_name,
\* symbol, price_usd, market_cap_usd, volume_usd, timestamp, in that order;
\* each row has exactly these keys, the first five holding the record's id,
\* symbol, current_price, market_cap and total_volume (NaN for a field the
\* record lacks), and no other field of the record is in the row.
C8_Source(col) ==
    CASE col = "crypto_name" -> "id"
      [] col = "symbol" -> "symbol"
      [] col = "price_usd" -> "current_price"
      [] col = "market_cap_usd" -> "market_cap"
      [] col = "volume_usd" -> "total_volume"

C8_ExactColumns ==
    Transformed =>
        /\ df.columns = <<"crypto_name", "symbol", "price_usd",
                          "market_cap_usd", "volume_usd", "timestamp">>
        /\ \A i \in 1..Len(df.rows) :
             /\ DOMAIN df.rows[i] = Range(df.columns)
             /\ \A col \in Range(df.columns) \ {"timestamp"} :
                  df.rows[i][col] =
                      IF C8_Source(col) \in DOMAIN data.items[i]
                      THEN data.items[i][C8_Source(col)]
                      ELSE NaN
             /\ \A col \in Range(df.columns) : df.rows[i][col].field # OtherField

\* a record with a sixth field has been transformed
C8_Witness ==
    /\ pc = "Loading"
    /\ \E i \in 1..Len(data.items) : OtherField \in DOMAIN data.items[i]

\* ------------------------------------------------------------- C9
\* C9: the start entry is this invocation's first entry and is there before
\* extract_data is invoked; the completion entry is appended only in Done,
\* right after load_data's success entry, and never by a failed invocation;
\* the log only grows.
C9_LogShape ==
    /\ pc = "Idle" => RunLog = <<>> /\ calls = NoCalls
    /\ pc # "Idle" => Len(RunLog) > 0 /\ RunLog[1] = Entry("INFO", "ETL process started.")
    /\ \A i \in 1..Len(RunLog) :
         RunLog[i].msg = "ETL process completed." =>
            /\ pc = "Done"
            /\ i = Len(RunLog)
            /\ i > 1
            /\ RunLog[i - 1] = Entry("INFO", "Data loading successful.")
            /\ calls.load = 1
    /\ pc = "Done" => Logged("ETL process completed.")

C9_StartAndCompletionEntries ==
    [][C9_LogShape /\ C9_LogShape' /\ IsPrefix(log, log')]_vars

\* a second invocation completes on top of the first one's entries
C9_Witness ==
    /\ pc = "Done"
    /\ logAtStart > 0
    /\ RunLog[Len(RunLog)].msg = "ETL process completed."

\* ------------------------------------------------------------- C10
\* the stage calls an invocation has made when it is at position p
CallsAt(p) ==
    CASE p \in {"Idle", "Extracting"} -> {NoCalls}
      [] p = "Transforming" -> {[extract |-> 1, transform |-> 0, load |-> 0]}
      [] p = "Loading" -> {[extract |-> 1, transform |-> 1, load |-> 0]}
      [] p = "Done" -> {[extract |-> 1, transform |-> 1, load |-> 1]}
      [] p = "Failed" -> {[extract |-> 1, transform |-> 0, load |-> 0],
                          [extract |-> 1, transform |-> 1, load |-> 0],
                          [extract |-> 1, transform |-> 1, load |-> 1]}

\* C10: every stage is invoked at most once per invocation; the calls made
\* so far are exactly those of the stages before the invocation's position
\* (all three when Done, the failed one last when Failed), so no stage is
\* retried and no second cycle begins; and an invocation that has not ended
\* can always take its next step, a stage returning or failing, so that it
\* ends in Done or Failed after at most four steps.
C10_OneCyclePerInvocation ==
    /\ \A stage \in DOMAIN calls : calls[stage] <= 1
    /\ calls \in CallsAt(pc)
    /\ pc \notin {"Done", "Failed"} => ENABLED Stages

\* the first invocation has ended after one cycle
C10_Witness ==
    /\ pc = "Done"
    /\ run = 1
    /\ calls = [extract |-> 1, transform |-> 1, load |-> 1]
====
